---- MODULE Spec2Model ----
(***************************************************************************)
(* Session orchestration of the Digital Twin panel of perf-lab-web.        *)
(*                                                                         *)
(* Two React components carry the same orchestration: Dashboard            *)
(* (src/components/Dashboard.tsx) and App (src/App.tsx).  The model is one *)
(* state machine with a `variant` chosen at construction; the two differ   *)
(* only where the source differs (the crash button of App is not disabled  *)
(* while a commit is running, App passes caught values through             *)
(* toApiError).                                                            *)
(*                                                                         *)
(* JavaScript is single threaded: a handler runs from its start to its     *)
(* first await as one step, and the continuation after an await runs as    *)
(* one step when the awaited promise settles.  A promise that is rejected  *)
(* without a network call (no base URL) settles in a microtask, before any *)
(* other event is handled.  A handler closes over the values of the render *)
(* in which it was created: the `goal` it reads after an await is the goal *)
(* of the render in which it was started.                                  *)
(***************************************************************************)
EXTENDS Integers, FiniteSets, Sequences, TLC

VARIABLES
  variant,        \* "Dashboard" | "App": which component is mounted
  configured,     \* API_V1_BASE is non-empty
  life,           \* "init" (constructed, effects not yet run) | "mounted" | "unmounted"
  goal,           \* goal / dtGoal
  prescription,   \* prescription / dtRx
  latestState,    \* latestState / dtState
  simulatedDose,  \* simulatedDose / dtDose
  loadingRx,      \* loadingRx / dtRxLoading
  loggingWorkout, \* loggingWorkout / dtLoading
  error,          \* error / dtError
  tasks,          \* async functions suspended at an await
  net,            \* fetch calls without a response yet
  nOps,           \* operations started so far (the id of the latest one)
  nReq,           \* fetch calls issued so far (the id of the latest one)
  rxIssued,       \* the id of the latest next-session call issued (history)
  call,           \* the transport call that settled last: function, outcome of
                  \* fetch, settlement (used when the transport is run on its own)
  logForm,        \* logForm / dtLog: the workout form
  view,           \* the render call made last: function, argument, output
                  \* (used when the render helpers are run on their own)
  last            \* the step taken last (history, read by the properties)

vars == <<variant, configured, life, goal, prescription, latestState,
          simulatedDose, loadingRx, loggingWorkout, error, tasks, net,
          nOps, nReq, rxIssued, call, logForm, view, last>>

\* ---------------------------------------------------------------- bounds
MaxOps == 3
MaxCalls == 2
MaxLiveOps == 2
\* The number of fields of the workout form the user changes.
MaxEdits == 1
\* Fatigue scalars range over [-MaxOver/4, 100 + MaxOver/4] in steps of a
\* quarter, numbers of seconds over [-2, MaxSeconds] in steps of a half.
MaxOver == 8
MaxSeconds == 125

\* ------------------------------------------------------------- constants
Variants == {"Dashboard", "App"}
Goals == {"Strength", "Hypertrophy", "Power", "General"}
InitialGoal == "Strength"

Null == [tag |-> "null"]
Undefined == [tag |-> "undefined"]

\* ------------------------------------------------------------- transport
\* JavaScript values: a string is [tag |-> "string", v |-> text], an object
\* is a record with tag "object" (or the tag of its shape) and its fields.
Str(text) == [tag |-> "string", v |-> text]
IsNullish(v) == v = Null \/ v = Undefined
\* a ?? b
Nullish(a, b) == IF IsNullish(a) THEN b ELSE a
\* o?.f
OptGet(o, f) ==
  IF IsNullish(o) THEN Undefined
  ELSE IF f \in DOMAIN o THEN o[f] ELSE Undefined

\* What fetch can settle with: a rejection, or a Response.
\*   status      the status code; res.ok is status in 200..299
\*   statusText  the status phrase, possibly empty (HTTP/2)
\*   ctype       the content-type header: "json" contains application/json,
\*               "other" does not, "none" is a missing header
\*   body        "value"      JSON of the shape of the endpoint (no detail)
\*               "detailStr"  JSON {"detail": "internal"}
\*               "detailObj"  JSON {"detail": [...]} (detail is not a string)
\*               "detailNull" JSON {"detail": null}
\*               "text"       text that is not JSON
\*               "empty"      no body
\*               "broken"     the body stream fails while it is read
Statuses == {200, 404, 500}
StatusTexts == {"", "Internal Server Error"}
ContentTypes == {"json", "other", "none"}
Bodies == {"value", "detailStr", "detailObj", "detailNull", "text", "empty",
           "broken"}
FetchRejected == [fetch |-> "rejected"]
HttpResponses ==
  [fetch : {"response"}, status : Statuses, statusText : StatusTexts,
   ctype : ContentTypes, body : Bodies]
FetchOutcomes == {FetchRejected} \cup HttpResponses

\* The classes of fetch outcome the orchestrator is run with, each with the
\* Response that stands for it.
\*   okJson    2xx, content-type application/json, body parses
\*   okEmpty   2xx, no body, no content type
\*   okBadJson 2xx, content-type application/json, body does not parse
\*   http      non-2xx, JSON body whose `detail` is a string
\*   httpObj   non-2xx, JSON body whose `detail` is not a string
\*   network   fetch itself rejects
Responses == {"okJson", "okEmpty", "okBadJson", "http", "httpObj", "network"}
Response(status, text, ctype, body) ==
  [fetch |-> "response", status |-> status, statusText |-> text,
   ctype |-> ctype, body |-> body]
Representative(resp) ==
  IF resp = "okJson" THEN Response(200, "", "json", "value")
  ELSE IF resp = "okEmpty" THEN Response(200, "", "none", "empty")
  ELSE IF resp = "okBadJson" THEN Response(200, "", "json", "text")
  ELSE IF resp = "http"
    THEN Response(500, "Internal Server Error", "json", "detailStr")
  ELSE IF resp = "httpObj"
    THEN Response(500, "Internal Server Error", "json", "detailObj")
  ELSE FetchRejected

\* The value the server sends for request r: a value of the shape of the
\* endpoint, distinct for every request.
Body(r) ==
  IF r.ep = "rx" THEN [tag |-> "rx", goal |-> r.goal, req |-> r.req]
  ELSE IF r.ep = "log" THEN [tag |-> "state", req |-> r.req]
  ELSE IF r.ep = "sim" THEN [tag |-> "dose", req |-> r.req, op |-> r.op]
  ELSE [tag |-> "ping", req |-> r.req]

\* Thrown values.  An Error instance has a string message.
ErrorInstance(cls) == [cls |-> cls, message |-> Str(cls)]
ConfigError == ErrorInstance("Error")

Resolved(v) == [ok |-> TRUE, val |-> v]
Rejected(e) == [ok |-> FALSE, val |-> e]

\* res.json()
ResJson(res, r) ==
  IF res.body = "value" THEN Resolved(Body(r))
  ELSE IF res.body = "detailStr"
    THEN Resolved([tag |-> "object", detail |-> Str("internal")])
  ELSE IF res.body = "detailObj"
    THEN Resolved([tag |-> "object", detail |-> [tag |-> "array"]])
  ELSE IF res.body = "detailNull"
    THEN Resolved([tag |-> "object", detail |-> Null])
  ELSE IF res.body = "broken" THEN Rejected(ErrorInstance("TypeError"))
  ELSE Rejected(ErrorInstance("SyntaxError"))

\* res.text()
ResText(res) ==
  IF res.body = "broken" THEN Rejected(ErrorInstance("TypeError"))
  ELSE IF res.body = "empty" THEN Resolved(Str(""))
  ELSE Resolved(Str(res.body))

ResOk(res) == res.status >= 200 /\ res.status <= 299
IsJson(res) == res.ctype = "json"

\* `detail` of handleResponse: what the try blocks leave in it.
ErrorDetail(res, r) ==
  LET read == IF IsJson(res) THEN ResJson(res, r) ELSE ResText(res)
  IN  IF read.ok THEN read.val ELSE Undefined

\* Variant: the status phrase is preferred to the detail field.
ApiErrorOf_StatusTextFirst(res, detail) ==
  [cls |-> "Object",
   message |-> Nullish(Nullish(Str(res.statusText), OptGet(detail, "detail")),
                       Str("API request failed")),
   status |-> res.status,
   details |-> detail]

ApiErrorOf(res, detail) ==
  [cls |-> "Object",
   message |-> Nullish(Nullish(OptGet(detail, "detail"), Str(res.statusText)),
                       Str("API request failed")),
   status |-> res.status,
   details |-> detail]

\* Variant: no try/catch around the body read of a non-2xx response.
handleResponse_RethrowsReadError(res, r) ==
  IF ~ResOk(res)
    THEN LET read == IF IsJson(res) THEN ResJson(res, r) ELSE ResText(res)
         IN  IF read.ok THEN Rejected(ApiErrorOf(res, read.val)) ELSE read
  ELSE IF IsJson(res) THEN ResJson(res, r)
  ELSE Resolved(Undefined)

handleResponse(res, r) ==
  IF ~ResOk(res) THEN Rejected(ApiErrorOf(res, ErrorDetail(res, r)))
  ELSE IF IsJson(res) THEN ResJson(res, r)
  ELSE Resolved(Undefined)

\* The settlement of the promise of request r when fetch settles with x.
Settle(x, r) ==
  IF x.fetch = "rejected"
    THEN Rejected(ErrorInstance("TypeError"))
    ELSE handleResponse(x, r)

\* ------------------------------------------------------------ workout log
\* A number is [tag |-> "number", v |-> n].
Num(n) == [tag |-> "number", v |-> n]

\* nowIso(): the time of the call, never the time the module was loaded.
nowIso == Str("now")

\* DEFAULT_LOG / DEFAULT_DT_LOG; its timestamp is taken when the module loads.
DEFAULT_LOG ==
  [timestamp |-> Str("loaded"),
   modality |-> Str("Strength"),
   duration_minutes |-> Num(45),
   session_rpe |-> Num(7),
   sleep_quality |-> Num(5),
   life_stress_inverse |-> Num(5),
   avg_rir |-> Num(2)]

\* The log of handleCrashWorkout / handleDtCrash.
CrashLog ==
  [timestamp |-> nowIso,
   modality |-> Str("Strength"),
   duration_minutes |-> Num(90),
   session_rpe |-> Num(10),
   sleep_quality |-> Num(2),
   life_stress_inverse |-> Num(2),
   avg_rir |-> Num(0)]

\* { ...logForm, timestamp: nowIso() }
Stamped(log) == [f \in DOMAIN log \cup {"timestamp"} |->
                   IF f = "timestamp" THEN nowIso ELSE log[f]]

\* Variant: a property whose value is undefined is written as null.
JSONstringify_UndefinedAsNull(log) ==
  [f \in DOMAIN log |-> IF log[f] = Undefined THEN Null ELSE log[f]]

\* JSON.stringify of a log: a property whose value is undefined is left
\* out, every other property is written with its value.
JSONstringify(log) ==
  [f \in {k \in DOMAIN log : log[k] # Undefined} |-> log[f]]

\* Issuing a call: with no base URL the function throws before fetch.
NewReq == IF configured THEN nReq + 1 ELSE 0
\* Each yields the network after the call, starting from the network `n`.
NoGoal == "-"
\* Variant: the call is made without the guard on the base URL.
Fetch_NoGuard(n, ep, g, op, body) ==
  n \cup {[req |-> nReq + 1, ep |-> ep, goal |-> g, op |-> op, body |-> body]}

\* `body` is the body given to fetch (undefined for a GET).
Fetch(n, ep, g, op, body) ==
  IF configured
    THEN n \cup {[req |-> nReq + 1, ep |-> ep, goal |-> g, op |-> op,
                  body |-> body]}
    ELSE n
getNextSession(n, g, op) == Fetch(n, "rx", g, op, Undefined)
logWorkout(n, op, log) == Fetch(n, "log", NoGoal, op, JSONstringify(log))
simulateDose(n, op, log) == Fetch(n, "sim", NoGoal, op, JSONstringify(log))
ReqCount == IF configured THEN nReq + 1 ELSE nReq
RxCount == IF configured THEN nReq + 1 ELSE rxIssued

\* The transport on its own.  A call of ping, getNextSession, logWorkout
\* or simulateDose runs to its first await (the guard on the base URL, then
\* fetch); it is resumed when fetch settles and runs handleResponse up to
\* the read of the body, and it is resumed again when the body has been
\* read.  Other calls and other responses come in between.  The calls
\* suspended at an await are in `tasks`, their fetch calls without a response
\* in `net`; nOps counts the calls made, nReq the fetch calls among them,
\* and `call` is the call that settled last.
NoFetch == [fetch |-> "none"]
NoRequest == [body |-> Undefined, url |-> <<>>, method |-> "none", headers |-> {}]
NoCall ==
  [fn |-> "none", arg |-> Undefined, n |-> 0, x |-> NoFetch,
   out |-> Resolved(Null), wire |-> NoRequest]

\* A string as the sequence of its characters.
Chars(text) ==
  CASE text = "Strength" -> <<"S", "t", "r", "e", "n", "g", "t", "h">>
    [] text = "Hypertrophy" ->
         <<"H", "y", "p", "e", "r", "t", "r", "o", "p", "h", "y">>
    [] text = "Power" -> <<"P", "o", "w", "e", "r">>
    [] text = "General" -> <<"G", "e", "n", "e", "r", "a", "l">>
    [] text = "Max Strength" ->
         <<"M", "a", "x", " ", "S", "t", "r", "e", "n", "g", "t", "h">>
    [] text = "R&D" -> <<"R", "&", "D">>

\* The goal parameter is a free-form string: a goal of the select and two
\* that need escaping.
GoalArgs == {"Strength", "Max Strength", "R&D"}

\* encodeURIComponent: the unreserved characters are kept, every other
\* character becomes the percent escape of its UTF-8 bytes.
Unreserved ==
  {"A", "B", "C", "D", "E", "F", "G", "H", "I", "J", "K", "L", "M", "N", "O",
   "P", "Q", "R", "S", "T", "U", "V", "W", "X", "Y", "Z",
   "a", "b", "c", "d", "e", "f", "g", "h", "i", "j", "k", "l", "m", "n", "o",
   "p", "q", "r", "s", "t", "u", "v", "w", "x", "y", "z",
   "0", "1", "2", "3", "4", "5", "6", "7", "8", "9",
   "-", "_", ".", "!", "~", "*", "'", "(", ")"}
PercentEscape(c) ==
  CASE c = " " -> <<"%", "2", "0">>
    [] c = "&" -> <<"%", "2", "6">>
    [] c = "/" -> <<"%", "2", "F">>
    [] c = "?" -> <<"%", "3", "F">>
    [] c = "=" -> <<"%", "3", "D">>
    [] c = "#" -> <<"%", "2", "3">>
    [] c = "+" -> <<"%", "2", "B">>
    [] c = "%" -> <<"%", "2", "5">>
RECURSIVE EscapeEach(_)
EscapeEach(cs) ==
  IF cs = <<>> THEN <<>>
  ELSE (IF Head(cs) \in Unreserved THEN <<Head(cs)>> ELSE PercentEscape(Head(cs)))
       \o EscapeEach(Tail(cs))

\* Variant: the goal is put into the URL as it is.
encodeURIComponent_Raw(cs) == cs

encodeURIComponent(cs) == EscapeEach(cs)

\* API_ROOT when it is not empty (the base URL without a trailing slash),
\* and API_V1_BASE; a URL is the sequence of its pieces.
API_ROOT == <<"{base}">>
API_V1_BASE == API_ROOT \o <<"/v1">>

\* The arguments of fetch for the request r: fetch(url) is a GET without
\* headers or body.
Request(r) ==
  CASE r.ep = "ping" ->
         [url |-> API_ROOT \o <<"/ping">>,
          method |-> "GET", headers |-> {}, body |-> Undefined]
    [] r.ep = "rx" ->
         [url |-> API_V1_BASE \o <<"/next-session?goal=">>
                    \o encodeURIComponent(Chars(r.goal)),
          method |-> "GET", headers |-> {}, body |-> Undefined]
    [] r.ep = "log" ->
         [url |-> API_V1_BASE \o <<"/log-workout">>,
          method |-> "POST",
          headers |-> {<<"Content-Type", "application/json">>},
          body |-> r.body]
    [] r.ep = "sim" ->
         [url |-> API_V1_BASE \o <<"/simulate-dose">>,
          method |-> "POST",
          headers |-> {<<"Content-Type", "application/json">>},
          body |-> r.body]

\* The fields of a WorkoutLog.
RequiredFields ==
  {"timestamp", "modality", "duration_minutes", "session_rpe",
   "sleep_quality", "life_stress_inverse"}
OptionalFields == {"avg_rir", "distance_meters", "total_volume_load"}

\* Logs given to the transport: one without any optional field, one whose
\* avg_rir is undefined, one with every field.
Logs ==
  {[f \in RequiredFields |-> Stamped(DEFAULT_LOG)[f]],
   [Stamped(DEFAULT_LOG) EXCEPT !.avg_rir = Undefined],
   [f \in RequiredFields \cup OptionalFields |->
      IF f = "distance_meters" THEN Num(5000)
      ELSE IF f = "total_volume_load" THEN Num(12000)
      ELSE Stamped(DEFAULT_LOG)[f]]}

\* The body of a Response before it is read.
Unread == "unread"
\* handleResponse reads the body of a response that is not ok, and of an ok
\* response with a JSON content type.
ReadsBody(res) == ~ResOk(res) \/ IsJson(res)

\* `arg` is the argument of the call, `sent` the network left by the
\* function called on an empty network.  With no base URL the function
\* throws before fetch: the promise it returns is rejected and there is no
\* outcome of fetch.  Otherwise it is suspended at `await fetch(...)`.
TransportCall(fn, arg, sent) ==
  /\ nOps < MaxCalls
  /\ nOps' = nOps + 1
  /\ nReq' = nReq + Cardinality(sent)
  /\ net' = net \cup sent
  /\ IF sent = {}
       THEN /\ call' = [fn |-> fn, arg |-> arg, n |-> nOps + 1, x |-> NoFetch,
                        out |-> Rejected(ConfigError), wire |-> NoRequest]
            /\ tasks' = tasks
       ELSE /\ tasks' = tasks \cup
                 {[n |-> nOps + 1, fn |-> fn, arg |-> arg, phase |-> "fetch",
                   res |-> NoFetch, r |-> CHOOSE r \in sent : TRUE,
                   wire |-> Request(CHOOSE r \in sent : TRUE)]}
            /\ call' = call
  /\ UNCHANGED <<variant, configured, life, goal, prescription,
                 latestState, simulatedDose, loadingRx, loggingWorkout,
                 error, rxIssued, logForm, view, last>>

CallPing ==
  TransportCall("ping", Undefined, Fetch({}, "ping", NoGoal, 0, Undefined))
CallGetNextSession ==
  \E g \in GoalArgs :
    TransportCall("getNextSession", Str(g), getNextSession({}, g, 0))
CallLogWorkout ==
  \E log \in Logs :
    TransportCall("logWorkout", log, logWorkout({}, 0, log))
CallSimulateDose ==
  \E log \in Logs :
    TransportCall("simulateDose", log, simulateDose({}, 0, log))

\* The promise of the suspended call c settles, fetch having settled with x.
CallSettled(c, x) ==
  /\ call' = [fn |-> c.fn, arg |-> c.arg, n |-> c.n, x |-> x,
              out |-> Settle(x, c.r), wire |-> c.wire]
  /\ tasks' = tasks \ {c}

\* `await fetch(...)` of a suspended call settles.  A rejection leaves the
\* function at once; with a Response, handleResponse runs up to
\* `await res.json()` / `await res.text()`, or to its end when it does not
\* read the body (the body of such a response is never looked at).
FetchSettled ==
  \E c \in tasks :
    /\ c.phase = "fetch"
    /\ net' = net \ {c.r}
    /\ \/ CallSettled(c, FetchRejected)
       \/ \E st \in Statuses : \E tx \in StatusTexts : \E ct \in ContentTypes :
            IF ReadsBody(Response(st, tx, ct, Unread))
              THEN /\ tasks' = (tasks \ {c}) \cup
                        {[c EXCEPT !.phase = "body",
                                   !.res = Response(st, tx, ct, Unread)]}
                   /\ call' = call
              ELSE \E body \in Bodies :
                     CallSettled(c, Response(st, tx, ct, body))
    /\ UNCHANGED <<variant, configured, life, goal, prescription,
                   latestState, simulatedDose, loadingRx, loggingWorkout,
                   error, nOps, nReq, rxIssued, logForm, view, last>>

\* The read of the body (res.json() or res.text()) of a suspended call
\* settles: the rest of handleResponse runs and the call settles.
BodyRead ==
  \E c \in tasks : \E body \in Bodies :
    /\ c.phase = "body"
    /\ CallSettled(c, Response(c.res.status, c.res.statusText, c.res.ctype,
                               body))
    /\ UNCHANGED <<variant, configured, life, goal, prescription,
                   latestState, simulatedDose, loadingRx, loggingWorkout,
                   error, net, nOps, nReq, rxIssued, logForm, view, last>>

\* ---------------------------------------------------------- orchestrator
isApiError(value) ==
  "message" \in DOMAIN value /\ value.message.tag = "string"

toApiError(err) ==
  IF isApiError(err) THEN err
  ELSE IF err.cls \in {"Error", "TypeError", "SyntaxError"}
    THEN [cls |-> "Object", message |-> err.message]
  ELSE [cls |-> "Object", message |-> Str("Unknown error"), details |-> err]

\* Variant: the catch block stores a rebuilt error with a default status.
Caught_DefaultStatus(t, err) ==
  [op |-> t.op, at |-> nOps,
   e |-> [cls |-> "Object", message |-> err.message,
          status |-> IF "status" \in DOMAIN err THEN err.status ELSE 0]]

\* The value a catch block stores in the error slot.
Caught(t, err) ==
  [op |-> t.op, at |-> nOps,
   e |-> IF variant = "App" THEN toApiError(err) ELSE err]

NoMicrotask == \A t \in tasks : t.req # 0
CanStart == life = "mounted" /\ NoMicrotask /\ nOps < MaxOps

Task(kind, phase, g, rq) ==
  [op |-> nOps + 1, kind |-> kind, phase |-> phase, goal |-> g,
   cancelled |-> FALSE, req |-> rq]

\* History: the step taken last.
Started(kind) ==
  [act |-> "start", kind |-> kind, op |-> nOps + 1, phase |-> "start",
   cancelled |-> FALSE, res |-> Resolved(Null)]
Done(t, res) ==
  [act |-> "done", kind |-> t.kind, op |-> t.op, phase |-> t.phase,
   cancelled |-> t.cancelled, res |-> res]

\* The ways the promise task t awaits can settle in this state, each with
\* the network left behind.
Settlements(t) ==
  IF t.req = 0
    THEN {[res |-> Rejected(ConfigError), net |-> net]}
    ELSE {[res |-> Settle(Representative(resp), r), net |-> net \ {r}] :
            resp \in Responses, r \in {q \in net : q.req = t.req}}
CanSettle(t) == t.req = 0 \/ NoMicrotask

\* No render helper called yet.
NoView == [fn |-> "none", arg |-> Undefined, out |-> Undefined]

Init ==
  /\ variant \in Variants
  /\ configured \in BOOLEAN
  /\ life = "init"
  /\ goal = InitialGoal
  /\ prescription = Null
  /\ latestState = Null
  /\ simulatedDose = Null
  /\ loadingRx = FALSE
  /\ loggingWorkout = FALSE
  /\ error = Null
  /\ tasks = {}
  /\ net = {}
  /\ nOps = 0
  /\ nReq = 0
  /\ rxIssued = 0
  /\ call = NoCall
  /\ logForm = DEFAULT_LOG
  /\ view = NoView
  /\ last = [act |-> "init", kind |-> "none", op |-> 0, phase |-> "start",
             cancelled |-> FALSE, res |-> Resolved(Null)]

\* The body of the effect: load / loadRx up to its await.
RunEffect(g, old) ==
  /\ loadingRx' = TRUE
  /\ error' = Null
  /\ tasks' = old \cup {Task("effect", "rx", g, NewReq)}
  /\ net' = getNextSession(net, g, nOps + 1)
  /\ nReq' = ReqCount
  /\ rxIssued' = RxCount
  /\ nOps' = nOps + 1
  /\ last' = Started("effect")

Mount ==
  /\ life = "init"
  /\ life' = "mounted"
  /\ RunEffect(goal, tasks)
  /\ UNCHANGED <<variant, configured, call, logForm, view, goal, prescription, latestState,
                 simulatedDose, loggingWorkout>>

\* The cleanup of the effect of the previous render.
Cleanup(ts) ==
  {IF t.kind = "effect" THEN [t EXCEPT !.cancelled = TRUE] ELSE t : t \in ts}

\* Variant: the effect returns no cleanup function.
ChangeGoal_NoCleanup(g) ==
  /\ CanStart
  /\ g # goal
  /\ goal' = g
  /\ RunEffect(g, tasks)
  /\ UNCHANGED <<variant, configured, call, logForm, view, life, prescription, latestState,
                 simulatedDose, loggingWorkout>>

\* onChange of the goal select: re-render, cleanup, effect.
ChangeGoal(g) ==
  /\ CanStart
  /\ g # goal
  /\ goal' = g
  /\ RunEffect(g, Cleanup(tasks))
  /\ UNCHANGED <<variant, configured, call, logForm, view, life, prescription, latestState,
                 simulatedDose, loggingWorkout>>

\* The component is removed: the cleanup of the effect runs, the handlers'
\* promises stay as they are.  The cells keep the value last given to
\* their setters.
Unmount ==
  /\ life = "mounted"
  /\ NoMicrotask
  /\ life' = "unmounted"
  /\ tasks' = Cleanup(tasks)
  /\ last' = [act |-> "unmount", kind |-> "none", op |-> nOps, phase |-> "start",
              cancelled |-> FALSE, res |-> Resolved(Null)]
  /\ UNCHANGED <<variant, configured, call, logForm, view, goal, prescription, latestState,
                 simulatedDose, loadingRx, loggingWorkout, error, net, nOps,
                 nReq, rxIssued>>

\* What the inputs of the form can deliver to updateLogField /
\* updateDtLog: onChange passes Number(e.target.value), and undefined for
\* an emptied avg_rir input.  The min and max attributes of the inputs do
\* not limit what is typed: a session_rpe above the maximum, a
\* sleep_quality below the minimum.
FormInputs ==
  {[value |-> Num(11), field |-> "session_rpe"],
   [value |-> Num(0), field |-> "sleep_quality"],
   [value |-> Undefined, field |-> "avg_rir"]}

\* The fields of the form that no longer hold their initial value.
Edited == {f \in DOMAIN logForm : logForm[f] # DEFAULT_LOG[f]}

\* updateLogField / updateDtLog: setLogForm(prev => ({...prev, [field]: value})).
updateLogField(field, value) ==
  /\ life = "mounted"
  /\ NoMicrotask
  /\ logForm[field] # value
  /\ Cardinality(Edited) < MaxEdits
  /\ logForm' = [logForm EXCEPT ![field] = value]
  /\ last' = [act |-> "edit", kind |-> "none", op |-> nOps, phase |-> "start",
              cancelled |-> FALSE, res |-> Resolved(Null)]
  /\ UNCHANGED <<variant, configured, call, view, life, goal, prescription,
                 latestState, simulatedDose, loadingRx, loggingWorkout, error,
                 tasks, net, nOps, nReq, rxIssued>>

\* Variant: the refresh handler without setError(null).
handleRefreshRx_KeepsError ==
  /\ CanStart
  /\ loadingRx' = TRUE
  /\ tasks' = tasks \cup {Task("refresh", "rx", goal, NewReq)}
  /\ net' = getNextSession(net, goal, nOps + 1)
  /\ nReq' = ReqCount
  /\ rxIssued' = RxCount
  /\ nOps' = nOps + 1
  /\ last' = Started("refresh")
  /\ UNCHANGED <<variant, configured, call, logForm, view, life, goal, prescription, latestState,
                 simulatedDose, loggingWorkout, error>>

\* Variant: the refresh handler blanks the prescription when it starts.
handleRefreshRx_ClearsRx ==
  /\ CanStart
  /\ loadingRx' = TRUE
  /\ error' = Null
  /\ prescription' = Null
  /\ tasks' = tasks \cup {Task("refresh", "rx", goal, NewReq)}
  /\ net' = getNextSession(net, goal, nOps + 1)
  /\ nReq' = ReqCount
  /\ rxIssued' = RxCount
  /\ nOps' = nOps + 1
  /\ last' = Started("refresh")
  /\ UNCHANGED <<variant, configured, call, logForm, view, life, goal,
                 latestState, simulatedDose, loggingWorkout>>

handleRefreshRx ==
  /\ CanStart
  /\ loadingRx' = TRUE
  /\ error' = Null
  /\ tasks' = tasks \cup {Task("refresh", "rx", goal, NewReq)}
  /\ net' = getNextSession(net, goal, nOps + 1)
  /\ nReq' = ReqCount
  /\ rxIssued' = RxCount
  /\ nOps' = nOps + 1
  /\ last' = Started("refresh")
  /\ UNCHANGED <<variant, configured, call, logForm, view, life, goal, prescription, latestState,
                 simulatedDose, loggingWorkout>>

\* The log a commit sends: the form with a new timestamp, or the crash log.
CommitLog(kind) == IF kind = "crash" THEN CrashLog ELSE Stamped(logForm)

\* Variant: the two calls of a commit issued together (Promise.all).
StartCommit_Concurrent(kind) ==
  /\ loggingWorkout' = TRUE
  /\ error' = Null
  /\ simulatedDose' = Null
  /\ tasks' = tasks \cup {Task(kind, "log", goal, NewReq)}
  /\ net' = IF configured
              THEN net \cup {[req |-> nReq + 1, ep |-> "log", goal |-> NoGoal,
                              op |-> nOps + 1,
                              body |-> JSONstringify(CommitLog(kind))],
                             [req |-> nReq + 2, ep |-> "rx", goal |-> goal,
                              op |-> nOps + 1, body |-> Undefined]}
              ELSE net
  /\ nReq' = IF configured THEN nReq + 2 ELSE nReq
  /\ rxIssued' = IF configured THEN nReq + 2 ELSE rxIssued
  /\ nOps' = nOps + 1
  /\ last' = Started(kind)
  /\ UNCHANGED <<variant, configured, call, logForm, view, life, goal, prescription, latestState,
                 loadingRx>>

\* Variant: a commit starts without setSimulatedDose(null).
StartCommit_KeepsDose(kind) ==
  /\ loggingWorkout' = TRUE
  /\ error' = Null
  /\ tasks' = tasks \cup {Task(kind, "log", goal, NewReq)}
  /\ net' = logWorkout(net, nOps + 1, CommitLog(kind))
  /\ nReq' = ReqCount
  /\ nOps' = nOps + 1
  /\ last' = Started(kind)
  /\ UNCHANGED <<variant, configured, call, logForm, view, life, goal, prescription,
                 latestState, loadingRx, rxIssued, simulatedDose>>

\* The part of handleSubmit / handleCrashWorkout before the first await.
StartCommit(kind) ==
  /\ loggingWorkout' = TRUE
  /\ error' = Null
  /\ simulatedDose' = Null
  /\ tasks' = tasks \cup {Task(kind, "log", goal, NewReq)}
  /\ net' = logWorkout(net, nOps + 1, CommitLog(kind))
  /\ nReq' = ReqCount
  /\ nOps' = nOps + 1
  /\ last' = Started(kind)
  /\ UNCHANGED <<variant, configured, call, logForm, view, life, goal, prescription, latestState,
                 loadingRx, rxIssued>>

\* The min and max attributes of the number inputs of the form.  The
\* browser checks them when the form is submitted with its submit button,
\* and only then: an empty input passes.
InputMin(field) == IF field = "avg_rir" THEN 0 ELSE 1
HasMax(field) == field # "duration_minutes"
InputMax == 10
ConstraintsValid(log) ==
  \A f \in {"duration_minutes", "session_rpe", "avg_rir", "sleep_quality",
            "life_stress_inverse"} :
    log[f] # Undefined =>
      /\ log[f].v >= InputMin(f)
      /\ HasMax(f) => log[f].v <= InputMax

\* The submit button is disabled while loggingWorkout / dtLoading; the
\* submit event is not fired for a form that fails its constraints.
handleSubmit ==
  /\ CanStart
  /\ ~loggingWorkout
  /\ ConstraintsValid(logForm)
  /\ StartCommit("submit")

\* The crash button of Dashboard is disabled while loggingWorkout; the one
\* of App is not.
handleCrashWorkout ==
  /\ CanStart
  /\ variant = "Dashboard" => ~loggingWorkout
  /\ StartCommit("crash")

\* Variant: the simulate handler without setError(null).
handleSimulateDose_KeepsError ==
  /\ CanStart
  /\ simulatedDose' = Null
  /\ tasks' = tasks \cup {Task("simulate", "sim", goal, NewReq)}
  /\ net' = simulateDose(net, nOps + 1, Stamped(logForm))
  /\ nReq' = ReqCount
  /\ nOps' = nOps + 1
  /\ last' = Started("simulate")
  /\ UNCHANGED <<variant, configured, call, logForm, view, life, goal, prescription, latestState,
                 loadingRx, loggingWorkout, rxIssued, error>>

handleSimulateDose ==
  /\ CanStart
  /\ error' = Null
  /\ simulatedDose' = Null
  /\ tasks' = tasks \cup {Task("simulate", "sim", goal, NewReq)}
  /\ net' = simulateDose(net, nOps + 1, Stamped(logForm))
  /\ nReq' = ReqCount
  /\ nOps' = nOps + 1
  /\ last' = Started("simulate")
  /\ UNCHANGED <<variant, configured, call, logForm, view, life, goal, prescription, latestState,
                 loadingRx, loggingWorkout, rxIssued>>

\* ------------------------------------------------- continuations (awaits)
\* Variant: the effect without the `cancelled` checks.
EffectSettled_IgnoresCancel(t, s) ==
  /\ prescription' = IF s.res.ok THEN s.res.val ELSE prescription
  /\ error' = IF ~s.res.ok THEN Caught(t, s.res.val) ELSE error
  /\ loadingRx' = FALSE
  /\ tasks' = tasks \ {t}
  /\ net' = s.net
  /\ last' = Done(t, s.res)
  /\ UNCHANGED <<variant, configured, call, logForm, view, life, goal, latestState, simulatedDose,
                 loggingWorkout, nOps, nReq, rxIssued>>

\* load / loadRx after `await getNextSession(goal)`.
EffectSettled(t, s) ==
  /\ prescription' = IF s.res.ok /\ ~t.cancelled THEN s.res.val ELSE prescription
  /\ error' = IF ~s.res.ok /\ ~t.cancelled THEN Caught(t, s.res.val) ELSE error
  /\ loadingRx' = IF ~t.cancelled THEN FALSE ELSE loadingRx
  /\ tasks' = tasks \ {t}
  /\ net' = s.net
  /\ last' = Done(t, s.res)
  /\ UNCHANGED <<variant, configured, call, logForm, view, life, goal, latestState, simulatedDose,
                 loggingWorkout, nOps, nReq, rxIssued>>

LoadSettled ==
  \E t \in tasks : \E s \in Settlements(t) :
    /\ t.kind = "effect"
    /\ CanSettle(t)
    /\ EffectSettled(t, s)

\* handleRefreshRx after `await getNextSession(goal)`.
\* Variant: the result of a manual refresh is not stored.
RefreshSettled_DropsResult ==
  \E t \in tasks : \E s \in Settlements(t) :
    /\ t.kind = "refresh"
    /\ CanSettle(t)
    /\ error' = IF ~s.res.ok THEN Caught(t, s.res.val) ELSE error
    /\ loadingRx' = FALSE
    /\ tasks' = tasks \ {t}
    /\ net' = s.net
    /\ last' = Done(t, s.res)
    /\ UNCHANGED <<variant, configured, call, logForm, view, life, goal,
                   latestState, simulatedDose, loggingWorkout, nOps, nReq,
                   rxIssued, prescription>>

\* Variant: the loading flag is reset after the try block, not in a
\* `finally`: a failed refresh leaves it set.
RefreshSettled_NoFinally ==
  \E t \in tasks : \E s \in Settlements(t) :
    /\ t.kind = "refresh"
    /\ CanSettle(t)
    /\ prescription' = IF s.res.ok THEN s.res.val ELSE prescription
    /\ error' = IF ~s.res.ok THEN Caught(t, s.res.val) ELSE error
    /\ loadingRx' = IF s.res.ok THEN FALSE ELSE loadingRx
    /\ tasks' = tasks \ {t}
    /\ net' = s.net
    /\ last' = Done(t, s.res)
    /\ UNCHANGED <<variant, configured, call, logForm, view, life, goal,
                   latestState, simulatedDose, loggingWorkout, nOps, nReq,
                   rxIssued>>

RefreshSettled ==
  \E t \in tasks : \E s \in Settlements(t) :
    /\ t.kind = "refresh"
    /\ CanSettle(t)
    /\ prescription' = IF s.res.ok THEN s.res.val ELSE prescription
    /\ error' = IF ~s.res.ok THEN Caught(t, s.res.val) ELSE error
    /\ loadingRx' = FALSE
    /\ tasks' = tasks \ {t}
    /\ net' = s.net
    /\ last' = Done(t, s.res)
    /\ UNCHANGED <<variant, configured, call, logForm, view, life, goal, latestState,
                   simulatedDose, loggingWorkout, nOps, nReq, rxIssued>>

\* Variant: the refresh after a commit re-reads the selected goal.
LogResolved_LatestGoal(t, s) ==
  /\ latestState' = s.res.val
  /\ tasks' = (tasks \ {t}) \cup {[t EXCEPT !.phase = "rx", !.req = NewReq]}
  /\ net' = getNextSession(s.net, goal, t.op)
  /\ nReq' = ReqCount
  /\ rxIssued' = RxCount
  /\ UNCHANGED <<error, loggingWorkout>>

\* handleSubmit / handleCrashWorkout after `await logWorkout(...)`: on
\* success the state is stored and getNextSession(goal) is called, with the
\* goal of the render the handler was created in.
LogResolved(t, s) ==
  /\ latestState' = s.res.val
  /\ tasks' = (tasks \ {t}) \cup {[t EXCEPT !.phase = "rx", !.req = NewReq]}
  /\ net' = getNextSession(s.net, t.goal, t.op)
  /\ nReq' = ReqCount
  /\ rxIssued' = RxCount
  /\ UNCHANGED <<error, loggingWorkout>>

\* Variant: a failed commit blanks the displayed state.
LogRejected_ClearsState(t, s) ==
  /\ error' = Caught(t, s.res.val)
  /\ loggingWorkout' = FALSE
  /\ tasks' = tasks \ {t}
  /\ net' = s.net
  /\ latestState' = Null
  /\ UNCHANGED <<nReq, rxIssued>>

\* Variant: a failed commit without the `finally`.
LogRejected_NoFinally(t, s) ==
  /\ error' = Caught(t, s.res.val)
  /\ tasks' = tasks \ {t}
  /\ net' = s.net
  /\ UNCHANGED <<latestState, nReq, rxIssued, loggingWorkout>>

\* Variant: a failed logWorkout is sent again.
LogRejected_Retries(t, s) ==
  /\ tasks' = (tasks \ {t}) \cup {[t EXCEPT !.req = NewReq]}
  /\ net' = logWorkout(s.net, t.op, CommitLog(t.kind))
  /\ nReq' = ReqCount
  /\ UNCHANGED <<latestState, rxIssued, error, loggingWorkout>>

LogRejected(t, s) ==
  /\ error' = Caught(t, s.res.val)
  /\ loggingWorkout' = FALSE
  /\ tasks' = tasks \ {t}
  /\ net' = s.net
  /\ UNCHANGED <<latestState, nReq, rxIssued>>

CommitLogSettled ==
  \E t \in tasks : \E s \in Settlements(t) :
    /\ t.kind \in {"submit", "crash"}
    /\ t.phase = "log"
    /\ CanSettle(t)
    /\ IF s.res.ok THEN LogResolved(t, s) ELSE LogRejected(t, s)
    /\ last' = Done(t, s.res)
    /\ UNCHANGED <<variant, configured, call, logForm, view, life, goal, prescription,
                   simulatedDose, loadingRx, nOps>>

\* Variant: a failed refresh after a commit blanks the prescription.
CommitRxSettled_BlanksRx ==
  \E t \in tasks : \E s \in Settlements(t) :
    /\ t.kind \in {"submit", "crash"}
    /\ t.phase = "rx"
    /\ CanSettle(t)
    /\ prescription' = IF s.res.ok THEN s.res.val ELSE Null
    /\ error' = IF ~s.res.ok THEN Caught(t, s.res.val) ELSE error
    /\ loggingWorkout' = FALSE
    /\ tasks' = tasks \ {t}
    /\ net' = s.net
    /\ last' = Done(t, s.res)
    /\ UNCHANGED <<variant, configured, call, logForm, view, life, goal, latestState,
                   simulatedDose, loadingRx, nOps, nReq, rxIssued>>

\* handleSubmit / handleCrashWorkout after `await getNextSession(goal)`.
CommitRxSettled ==
  \E t \in tasks : \E s \in Settlements(t) :
    /\ t.kind \in {"submit", "crash"}
    /\ t.phase = "rx"
    /\ CanSettle(t)
    /\ prescription' = IF s.res.ok THEN s.res.val ELSE prescription
    /\ error' = IF ~s.res.ok THEN Caught(t, s.res.val) ELSE error
    /\ loggingWorkout' = FALSE
    /\ tasks' = tasks \ {t}
    /\ net' = s.net
    /\ last' = Done(t, s.res)
    /\ UNCHANGED <<variant, configured, call, logForm, view, life, goal, latestState,
                   simulatedDose, loadingRx, nOps, nReq, rxIssued>>

\* Variant: the dose is written into the state cell.
SimulateSettled_WritesState ==
  \E t \in tasks : \E s \in Settlements(t) :
    /\ t.kind = "simulate"
    /\ CanSettle(t)
    /\ simulatedDose' = IF s.res.ok THEN s.res.val ELSE simulatedDose
    /\ latestState' = IF s.res.ok THEN s.res.val ELSE latestState
    /\ error' = IF ~s.res.ok THEN Caught(t, s.res.val) ELSE error
    /\ tasks' = tasks \ {t}
    /\ net' = s.net
    /\ last' = Done(t, s.res)
    /\ UNCHANGED <<variant, configured, call, logForm, view, life, goal, prescription,
                   loadingRx, loggingWorkout, nOps, nReq, rxIssued>>

\* Variant: a successful simulation empties the error slot.
SimulateSettled_ClearsError ==
  \E t \in tasks : \E s \in Settlements(t) :
    /\ t.kind = "simulate"
    /\ CanSettle(t)
    /\ simulatedDose' = IF s.res.ok THEN s.res.val ELSE simulatedDose
    /\ error' = IF ~s.res.ok THEN Caught(t, s.res.val) ELSE Null
    /\ tasks' = tasks \ {t}
    /\ net' = s.net
    /\ last' = Done(t, s.res)
    /\ UNCHANGED <<variant, configured, call, logForm, view, life, goal, prescription, latestState,
                   loadingRx, loggingWorkout, nOps, nReq, rxIssued>>

\* handleSimulateDose after `await simulateDose(...)`.
SimulateSettled ==
  \E t \in tasks : \E s \in Settlements(t) :
    /\ t.kind = "simulate"
    /\ CanSettle(t)
    /\ simulatedDose' = IF s.res.ok THEN s.res.val ELSE simulatedDose
    /\ error' = IF ~s.res.ok THEN Caught(t, s.res.val) ELSE error
    /\ tasks' = tasks \ {t}
    /\ net' = s.net
    /\ last' = Done(t, s.res)
    /\ UNCHANGED <<variant, configured, call, logForm, view, life, goal, prescription, latestState,
                   loadingRx, loggingWorkout, nOps, nReq, rxIssued>>

\* Every operation the component offers: mounting, the goal select, the
\* inputs of the form, the buttons, the continuations of the handlers
\* when a response arrives, and the removal of the component.
Next ==
  \/ Mount
  \/ \E g \in Goals : ChangeGoal(g)
  \/ Unmount
  \/ \E i \in FormInputs : updateLogField(i.field, i.value)
  \/ handleRefreshRx
  \/ handleSubmit
  \/ handleCrashWorkout
  \/ handleSimulateDose
  \/ LoadSettled
  \/ RefreshSettled
  \/ CommitLogSettled
  \/ CommitRxSettled
  \/ SimulateSettled

Spec == Init /\ [][Next]_vars

\* Every call that was issued gets a response or a failure, and every
\* rejected promise is handled: an async function suspended at an await is
\* resumed.  Resumed is what the five continuations (LoadSettled,
\* RefreshSettled, CommitLogSettled, CommitRxSettled, SimulateSettled) do to
\* `tasks`: the function ends, or a commit goes on to its second await.  It
\* can happen exactly when one of them can, and no other step does it.
Resumed ==
  \E t \in tasks :
    /\ CanSettle(t)
    /\ \/ tasks' = tasks \ {t}
       \/ tasks' = (tasks \ {t}) \cup {[t EXCEPT !.phase = "rx", !.req = NewReq]}

\* The session of a user who starts at most MaxLiveOps operations.
LiveStart(A) == nOps < MaxLiveOps /\ A
NextLive ==
  \/ LiveStart(Mount)
  \/ \E g \in Goals : LiveStart(ChangeGoal(g))
  \/ Unmount
  \/ \E i \in FormInputs : updateLogField(i.field, i.value)
  \/ LiveStart(handleRefreshRx)
  \/ LiveStart(handleSubmit)
  \/ LiveStart(handleCrashWorkout)
  \/ LiveStart(handleSimulateDose)
  \/ LoadSettled
  \/ RefreshSettled
  \/ CommitLogSettled
  \/ CommitRxSettled
  \/ SimulateSettled

SpecLive == Init /\ [][NextLive]_vars /\ WF_tasks(Resumed)

\* ------------------------------------------------------------------ render
\* The prescription panel: loadingRx ? <pulse> : prescription ? <card> : <p>.
\* JavaScript truthiness, as tested by `prescription ? ... : ...`: null,
\* undefined, false, 0, NaN and the empty string are falsy, every other
\* value (every object) is truthy.
Falsy(v) ==
  \/ v = Null
  \/ v = Undefined
  \/ v = [tag |-> "boolean", v |-> FALSE]
  \/ v = [tag |-> "NaN"]
  \/ v = Num(0)
  \/ v = Str("")
Truthy(v) == ~Falsy(v)
Pulse == [tag |-> "pulse"]
Card(p) == [tag |-> "card", rx |-> p]
NoPrescriptionYet == [tag |-> "text"]
RenderPrescription ==
  IF loadingRx THEN Pulse
  ELSE IF Truthy(prescription) THEN Card(prescription)
  ELSE NoPrescriptionYet

\* The transport run on its own.
NextTransport ==
  \/ CallPing
  \/ CallGetNextSession
  \/ CallLogWorkout
  \/ CallSimulateDose
  \/ FetchSettled
  \/ BodyRead

SpecTransport == Init /\ [][NextTransport]_vars

\* --------------------------------------------------------- render helpers
\* Numbers with a fraction are exact binary fractions: n / unit.
Quarters(n) == [tag |-> "number", n |-> n, unit |-> 4]
Halves(n) == [tag |-> "number", n |-> n, unit |-> 2]
NaN == [tag |-> "NaN"]
PosInfinity == [tag |-> "Infinity"]
NegInfinity == [tag |-> "-Infinity"]
isFinite(x) == x.tag = "number"

MathMin(a, b) == IF a < b THEN a ELSE b
MathMax(a, b) == IF a > b THEN a ELSE b

\* x.toFixed(1) of a number of quarters x >= 0: the number of tenths nearest
\* to x, the larger one of two; the text is "<int>.<frac>".
toFixed1(x) ==
  LET tenths == (10 * x.n + 2) \div 4
  IN  [int |-> tenths \div 10, frac |-> tenths % 10]

\* Variant: the value is rendered without clamping.
renderFatigueBar_NoClamp(value) ==
  LET v == Nullish(value, Quarters(0))
  IN  [text |-> toFixed1(v), width |-> v]

\* The percentage text and the width of the bar, both followed by "%".
renderFatigueBar(value) ==
  LET v == Nullish(value, Quarters(0))
      pct == Quarters(MathMax(0, MathMin(100 * 4, v.n)))
  IN  [text |-> toFixed1(pct), width |-> pct]

\* String(n) of a natural number as the sequence of its digits.
RECURSIVE Digits(_)
Digits(n) == IF n < 10 THEN <<n>> ELSE Digits(n \div 10) \o <<n % 10>>
\* text.padStart(2, "0")
padStart2(ds) == IF Len(ds) < 2 THEN <<0>> \o ds ELSE ds
\* Math.round of a non-negative number of halves.
MathRound(halves) == (halves + 1) \div 2
\* The en dash returned for a duration that cannot be shown.
Dash == [tag |-> "dash"]

\* `${mm}:${ss}` for a number of seconds given in halves.
formatMMSS(sec) ==
  IF ~isFinite(sec) \/ sec.n <= 0 THEN Dash
  ELSE LET m == sec.n \div (60 * 2)
           sr == MathRound(sec.n % (60 * 2))
       IN  [tag |-> "text", mm |-> padStart2(Digits(m)),
            ss |-> padStart2(Digits(sr))]

\* The fatigue scalars that are numbers, in quarters, and the missing ones.
FatigueValues == (0 - MaxOver)..(400 + MaxOver)
Missing == {Undefined, Null}
\* The finite numbers of seconds, in halves, and the other numbers.
SecondsValues == (0 - 4)..(2 * MaxSeconds)
NonFinite == {NaN, PosInfinity, NegInfinity}

Rendered(fn, arg, out) ==
  /\ view' = [fn |-> fn, arg |-> arg, out |-> out]
  /\ UNCHANGED <<variant, configured, life, goal, prescription, latestState,
                 simulatedDose, loadingRx, loggingWorkout, error, tasks, net,
                 nOps, nReq, rxIssued, call, logForm, last>>

RenderFatigueBar ==
  \/ \E n \in FatigueValues :
       Rendered("renderFatigueBar", Quarters(n), renderFatigueBar(Quarters(n)))
  \/ \E value \in Missing :
       Rendered("renderFatigueBar", value, renderFatigueBar(value))

\* formatMMSS is part of the App variant only.
RenderMMSS ==
  /\ variant = "App"
  /\ \/ \E n \in SecondsValues :
          Rendered("formatMMSS", Halves(n), formatMMSS(Halves(n)))
     \/ \E sec \in NonFinite :
          Rendered("formatMMSS", sec, formatMMSS(sec))

NextRender ==
  \/ RenderFatigueBar
  \/ RenderMMSS

SpecRender == Init /\ [][NextRender]_vars

\* ------------------------------------------------------------ properties
Commits == {"submit", "crash"}

\* The form in which the component stores a caught value: App normalises
\* it, Dashboard stores it as caught.
StoredForm(err) == IF variant = "App" THEN toApiError(err) ELSE err

\* Task t was suspended before the step and the step ran its continuation.
SettledIn(t) == t \in tasks /\ t \notin tasks' /\ last' = Done(t, last'.res)

\* C1: last-goal-wins.  The response (success or failure) of the effect
\* request of a previous goal, arriving at any time after the goal changed,
\* changes none of prescription, error and loadingRx; a successful response
\* of the effect request of the current render is what gets displayed.
C1_LastGoalWins ==
  [][\A t \in tasks :
       (t.kind = "effect" /\ SettledIn(t)) =>
         IF t.cancelled \/ t.goal # goal
           THEN UNCHANGED <<prescription, error, loadingRx>>
           ELSE last'.res.ok => prescription' = last'.res.val]_vars

\* Strength then Power; the Power response was applied and the Strength
\* response arrived after it.
C1_Witness ==
  /\ nOps = 2
  /\ goal = "Power"
  /\ prescription = [tag |-> "rx", goal |-> "Power", req |-> 2]
  /\ last.act = "done" /\ last.kind = "effect" /\ last.op = 1 /\ last.cancelled
  /\ error = Null
  /\ ~loadingRx
  /\ tasks = {}

\* C2: latestState changes only in the step in which a log-workout request
\* resolves successfully, and is then the value returned for that request;
\* every other step (start, refresh, simulate, goal change, failure) leaves
\* it as it is.
C2_StateOnlyByCommit ==
  [][LET logOk == /\ last' # last
                  /\ last'.act = "done"
                  /\ last'.kind \in Commits
                  /\ last'.phase = "log"
                  /\ last'.res.ok
     IN  /\ logOk => latestState' = last'.res.val
         /\ ~logOk => latestState' = latestState]_vars

\* A state returned by a commit is still held after a later operation failed.
C2_Witness ==
  /\ latestState.tag = "state"
  /\ last.act = "done"
  /\ ~last.res.ok
  /\ ~last.cancelled
  /\ error # Null
  /\ error.op = last.op

\* C3: a commit whose log-workout request fails leaves latestState and
\* prescription as they were, issues no prescription request, stores the
\* failure in the error slot and sets loggingWorkout to false.
C3_FailedCommit ==
  [][\A t \in tasks :
       (t.kind \in Commits /\ t.phase = "log" /\ SettledIn(t) /\ ~last'.res.ok) =>
         /\ UNCHANGED <<latestState, prescription>>
         /\ nReq' = nReq
         /\ net' \subseteq net
         /\ \A u \in tasks' : u.op # t.op
         /\ error' # Null
         /\ error'.op = t.op
         /\ error'.e = StoredForm(last'.res.val)
         /\ loggingWorkout' = FALSE]_vars

\* A commit failed while a state and a prescription were displayed.
C3_Witness ==
  /\ last.act = "done" /\ last.kind \in Commits /\ last.phase = "log"
  /\ ~last.res.ok
  /\ latestState.tag = "state"
  /\ prescription.tag = "rx"
  /\ error # Null /\ error.op = last.op
  /\ ~loggingWorkout

\* C4: the prescription request of a commit is issued in the step in which
\* its log-workout request resolves successfully and latestState is stored,
\* and the two requests of one commit are never outstanding together.
C4_Sequenced ==
  /\ [](\A r \in net : \A q \in net :
          (r.op = q.op /\ r.ep = "log") => q = r)
  /\ [][\A r \in net' \ net :
          \A t \in tasks' :
            (t.req = r.req /\ t.kind \in Commits /\ r.ep = "rx") =>
              /\ \E u \in tasks : u.op = t.op /\ u.phase = "log" /\ SettledIn(u)
              /\ last'.res.ok
              /\ latestState' = last'.res.val
              /\ \A q \in net' : q.op = r.op => q = r]_vars

\* The prescription request of a commit is outstanding, after its state
\* was stored.
C4_Witness ==
  \E r \in net : \E t \in tasks :
    /\ t.kind \in Commits /\ t.phase = "rx" /\ t.req = r.req /\ r.ep = "rx"
    /\ latestState.tag = "state"
    /\ last.act = "done" /\ last.op = t.op /\ last.phase = "log"

\* C5: no step of a simulate (start, success, failure) changes latestState
\* or prescription.
C5_SimulateFrame ==
  [][(last' # last /\ last'.kind = "simulate") =>
       UNCHANGED <<latestState, prescription>>]_vars

\* A simulation finished while a state and a prescription were displayed.
C5_Witness ==
  /\ last.act = "done" /\ last.kind = "simulate"
  /\ latestState.tag = "state"
  /\ prescription.tag = "rx"

\* C6 (as claimed): among all triggers, only the result of the most recently
\* issued next-session request is applied to prescription; the result of an
\* earlier-issued request is dropped when it arrives.
C6_OnlyLatestRequestApplied ==
  [][\A t \in tasks :
       (t.phase = "rx" /\ SettledIn(t) /\ t.req # rxIssued) =>
         prescription' = prescription]_vars

\* C7 (as claimed): the refresh after a successful log-workout is requested
\* for the goal selected at the moment the log-workout request resolves.
C7_RefreshForLatestGoal ==
  [][\A r \in net' \ net :
       (r.ep = "rx" /\ \E t \in tasks : t.op = r.op /\ t.kind \in Commits) =>
         r.goal = goal]_vars

\* C7 (amended): a commit latches the goal selected when it starts, and the
\* refresh after its successful log-workout is requested for that goal, also
\* when the goal was changed in between.
C7_RefreshForGoalAtStart ==
  /\ [][\A t \in tasks' \ tasks :
          (t.kind \in Commits /\ t.phase = "log") => t.goal = goal]_vars
  /\ [][\A t \in tasks :
          (t.kind \in Commits /\ t.phase = "log" /\ SettledIn(t)
             /\ last'.res.ok) =>
            \E r \in net' \ net :
              r.ep = "rx" /\ r.op = t.op /\ r.goal = t.goal]_vars

\* The refresh of a commit is outstanding for the goal of its start, after
\* the goal was changed while the log-workout request was outstanding.
C7_Witness ==
  \E r \in net :
    /\ r.ep = "rx"
    /\ r.goal # goal
    /\ \E t \in tasks : t.kind \in Commits /\ t.req = r.req /\ t.goal = r.goal
    /\ last.act = "done" /\ last.op = r.op /\ last.phase = "log"

\* C8: the start step of every operation empties the error slot, in the step
\* that issues its first request, and every failure that is not a cancelled
\* one overwrites the slot with that failure.
C8_SingleErrorSlot ==
  [][/\ nOps' # nOps => error' = Null
     /\ \A r \in net' \ net : r.op = nOps' /\ nOps' # nOps => error' = Null
     /\ \A t \in tasks :
          (SettledIn(t) /\ ~last'.res.ok /\ ~(t.kind = "effect" /\ t.cancelled)) =>
            error' = [op |-> t.op, at |-> nOps, e |-> StoredForm(last'.res.val)]]_vars

\* The mount request failed (its error was displayed) and the start of a
\* refresh emptied the slot.
C8_Witness ==
  /\ nOps = 2
  /\ last.act = "start" /\ last.kind = "refresh"
  /\ prescription = Null
  /\ \A t \in tasks : t.op = 2
  /\ error = Null

\* C9 (as claimed): the arrival of any later result, a success as well as a
\* failure, supersedes the error displayed before it.
C9_AnyResultSupersedes ==
  [][\A t \in tasks :
       (SettledIn(t) /\ ~t.cancelled /\ error # Null) => error' # error]_vars

\* C9 (amended): a displayed error stays until the next operation start,
\* which empties the slot, or the next failure that is not cancelled, which
\* replaces it; a later success leaves it displayed.
C9_SupersededByStartOrFailure ==
  [][/\ error' # error =>
          \/ nOps' = nOps + 1 /\ error' = Null
          \/ \E t \in tasks :
               /\ SettledIn(t) /\ ~last'.res.ok
               /\ ~(t.kind = "effect" /\ t.cancelled)
               /\ error'.op = t.op
     /\ \A t \in tasks : (SettledIn(t) /\ last'.res.ok) => error' = error]_vars

\* An error of one operation is still displayed after the success of another.
C9_Witness ==
  /\ error # Null
  /\ last.act = "done"
  /\ last.res.ok
  /\ ~last.cancelled
  /\ last.op # error.op

\* C10 (as claimed): once an operation has started, the error slot never
\* holds an error produced by an operation that was started before it.
C10_NoErrorOfEarlierOperation ==
  error # Null => error.op = nOps

\* C10 (amended): the error slot never holds an error that was stored before
\* the most recent operation start; it can hold the error of an operation
\* started earlier when that failure arrived after the most recent start.
C10_NoErrorStoredBeforeLatestStart ==
  error # Null => error.at = nOps

\* The failure of an operation is displayed while a later-started operation
\* is running.
C10_Witness ==
  /\ error # Null
  /\ error.op < nOps
  /\ \E t \in tasks : t.op > error.op

\* A commit or simulate cycle.
Cycles == Commits \cup {"simulate"}

\* C11: the start of every commit and of every simulate empties the dose
\* slot and the error slot (in the step that issues its request); the state
\* cell never holds a dose; the steps of a refresh (effect or button) leave
\* the dose slot as it is.
C11_TransientReset ==
  /\ [](latestState.tag # "dose")
  /\ [][/\ (nOps' # nOps /\ last'.kind \in Cycles) =>
             simulatedDose' = Null /\ error' = Null
        /\ (last' # last /\ last'.kind \in {"effect", "refresh"}) =>
             simulatedDose' = simulatedDose]_vars

\* A third operation, a commit or a simulate, has just started: both slots
\* are empty while a state of an earlier commit is displayed.
C11_Witness ==
  /\ last.act = "start" /\ last.kind \in Cycles /\ last.op = 3
  /\ simulatedDose = Null
  /\ error = Null
  /\ latestState.tag = "state"

\* C12 (as claimed): while a commit or simulate cycle is in progress, or
\* has just ended in failure, the dose slot does not hold a dose produced by
\* a simulate cycle that started before that cycle.
C12_NoLeftoverDose ==
  simulatedDose.tag = "dose" =>
    /\ \A t \in tasks : t.kind \in Cycles => t.op <= simulatedDose.op
    /\ (last.act = "done" /\ last.kind \in Cycles /\ ~last.res.ok) =>
         last.op <= simulatedDose.op

\* C13 (as claimed): once the component is unmounted, no response that
\* arrives later gives a new value to the state, prescription, dose, error
\* or loading cells.
C13_NoWriteAfterTeardown ==
  [][life = "unmounted" =>
       UNCHANGED <<latestState, prescription, simulatedDose, error,
                   loadingRx, loggingWorkout>>]_vars

\* C14: with no base URL every call of ping, getNextSession, logWorkout and
\* simulateDose fails with the configuration error and no fetch is made,
\* whatever the sequence of calls.
C14_NoFetchWithoutBaseUrl ==
  ~configured =>
    /\ nReq = 0
    /\ net = {}
    /\ tasks = {}
    /\ call.fn # "none" => call.out = Rejected(ConfigError)
    /\ call.n = nOps

\* MaxCalls calls were made without a base URL, the last one a ping.
C14_Witness ==
  /\ ~configured
  /\ call.n = MaxCalls
  /\ call.fn = "ping"
  /\ call.out = Rejected(ConfigError)
  /\ nReq = 0

\* C15 (as claimed): the error slot is empty or holds a converted ApiError
\* whose message is a string, never the thrown value itself.
C15_ErrorSlotHoldsApiError ==
  error # Null => error.e.cls = "Object" /\ isApiError(error.e)

\* The call that settled last met a non-2xx response.
Non2xx ==
  /\ call.fn # "none"
  /\ configured
  /\ call.x.fetch = "response"
  /\ ~(call.x.status \in 200..299)

\* What the body kinds stand for.
DetailBodies == {"detailStr", "detailObj", "detailNull"}
DetailValue(body) ==
  IF body = "detailStr" THEN Str("internal")
  ELSE IF body = "detailObj" THEN [tag |-> "array"]
  ELSE Null
TextOf(body) == Str(IF body = "empty" THEN "" ELSE body)

\* C16 (as claimed): every failure that leaves a transport function is an
\* ApiError (an object with a string message, and the status for a non-2xx
\* response); no raw exception leaves the transport.
C16_OnlyApiErrorsLeave ==
  (call.fn # "none" /\ ~call.out.ok) =>
    /\ call.out.val.cls = "Object"
    /\ isApiError(call.out.val)
    /\ Non2xx => call.out.val.status = call.x.status

\* C16 (amended): a non-2xx response always leaves the transport as an
\* object with message, status (the status code) and details, also when
\* reading its body raises; every other failure (no base URL, rejected
\* fetch, parse exception on a 2xx body) leaves it as the raw Error
\* instance, which has a string message and no status.
C16_ApiErrorForNon2xxOnly ==
  /\ Non2xx => ~call.out.ok
  /\ (call.fn # "none" /\ ~call.out.ok) =>
       IF Non2xx
         THEN /\ call.out.val.cls = "Object"
              /\ {"message", "status", "details"} \subseteq DOMAIN call.out.val
              /\ call.out.val.status = call.x.status
         ELSE /\ call.out.val.cls \in {"Error", "TypeError", "SyntaxError"}
              /\ call.out.val.message.tag = "string"
              /\ "status" \notin DOMAIN call.out.val

\* A non-2xx response whose body could not be read still gave an object
\* with the status.
C16_Witness ==
  /\ Non2xx
  /\ call.x.body = "broken"
  /\ ~call.out.ok
  /\ call.out.val.cls = "Object"
  /\ call.out.val.status = call.x.status

\* C17 (as claimed): for every non-2xx response whose body is JSON with a
\* detail field, message is the value of that field and status the status
\* code.
C17_MessageIsDetail ==
  (Non2xx /\ call.x.body \in DetailBodies) =>
    /\ call.out.val.message = DetailValue(call.x.body)
    /\ call.out.val.status = call.x.status

\* C17 (amended): the same for a non-2xx response with a JSON content type
\* whose body is JSON with a detail field that is not null.
C17_MessageIsDetailOfJsonResponse ==
  (Non2xx /\ call.x.ctype = "json" /\ call.x.body \in {"detailStr", "detailObj"}) =>
    /\ call.out.val.message = DetailValue(call.x.body)
    /\ call.out.val.status = call.x.status

\* Status 500 with the JSON body {"detail": "internal"}.
C17_Witness ==
  /\ Non2xx
  /\ call.x = Response(500, "Internal Server Error", "json", "detailStr")
  /\ call.out.val.message = Str("internal")
  /\ call.out.val.status = 500

\* C18 (as claimed): on a non-2xx response the detail comes from the parsed
\* JSON body; when parsing fails or the body is not JSON the response is
\* read as text; when there is no detail the message is the status phrase.
C18_FallbackChain ==
  Non2xx =>
    /\ (call.x.ctype = "json" /\ call.x.body = "text") =>
         call.out.val.details = TextOf(call.x.body)
    /\ (call.x.ctype # "json" /\ call.x.body # "broken") =>
         call.out.val.details = TextOf(call.x.body)
    /\ (call.x.ctype = "json" /\ call.x.body \in {"detailStr", "detailObj"}) =>
         call.out.val.message = DetailValue(call.x.body)
    /\ call.x.body \in {"value", "empty", "broken"} =>
         call.out.val.message = Str(call.x.statusText)

\* C19 (as claimed): for every non-2xx response whose body is JSON with a
\* detail field or plain text, details holds the content of the body.
C19_BodyCaptured ==
  (Non2xx /\ call.x.body \in DetailBodies \cup {"text"}) =>
    \/ call.out.val.details = TextOf(call.x.body)
    \/ /\ call.out.val.details.tag = "object"
       /\ call.out.val.details.detail = DetailValue(call.x.body)

\* C20: when fetch rejects, or the body of a 2xx response does not parse,
\* and the operation is not a cancelled one, the error slot holds a value
\* with a string message and no status field.
C20_TransportErrorShape ==
  [][\A t \in tasks :
       (/\ SettledIn(t)
        /\ ~(t.kind = "effect" /\ t.cancelled)
        /\ ~last'.res.ok
        /\ last'.res.val.cls \in {"TypeError", "SyntaxError"}) =>
         /\ error' # Null
         /\ error'.op = t.op
         /\ "message" \in DOMAIN error'.e
         /\ error'.e.message.tag = "string"
         /\ "status" \notin DOMAIN error'.e]_vars

\* The failure to parse a 2xx body is displayed.
C20_Witness ==
  /\ error # Null
  /\ last.act = "done" /\ last.op = error.op
  /\ last.res.val = ErrorInstance("SyntaxError")
  /\ error.e.message.tag = "string"
  /\ "status" \notin DOMAIN error.e

\* C21: a request is issued only by the step that starts an operation (one
\* request, of that operation) or by the step in which the logWorkout of a
\* commit succeeds (the one next-session request of that commit); the step
\* in which an operation fails issues nothing and ends the operation.
C21_NoAutomaticRetry ==
  [][/\ nReq' \in {nReq, nReq + 1}
     /\ \A r \in net' \ net :
          /\ nReq' = nReq + 1 /\ r.req = nReq'
          /\ \/ nOps' = nOps + 1 /\ r.op = nOps'
             \/ /\ nOps' = nOps /\ r.ep = "rx" /\ last'.res.ok
                /\ \E t \in tasks :
                     /\ t.kind \in Commits /\ t.phase = "log" /\ t.op = r.op
                     /\ SettledIn(t)
     /\ \A t \in tasks :
          (SettledIn(t) /\ ~last'.res.ok) =>
            /\ nReq' = nReq
            /\ net' \subseteq net
            /\ \A u \in tasks' : u.op # t.op]_vars

\* Three operations, each with one request; the last one, a commit, met a
\* non-2xx response, and nothing is outstanding afterwards.
C21_Witness ==
  /\ last.act = "done" /\ last.kind \in Commits /\ last.phase = "log"
  /\ ~last.res.ok /\ "status" \in DOMAIN last.res.val
  /\ tasks = {} /\ net = {}
  /\ nOps = 3 /\ nReq = 3

\* The call that settled last met a 2xx response.
Success2xx ==
  /\ call.fn # "none"
  /\ configured
  /\ call.x.fetch = "response"
  /\ call.x.status \in 200..299

\* C22 (as claimed): on a 2xx response the body is parsed and returned only
\* when the content type is JSON; with no body, or with another content
\* type, the result is the empty result (undefined) and nothing is parsed.
C22_SuccessBody ==
  Success2xx =>
    IF call.x.ctype = "json" /\ call.x.body # "empty"
      THEN call.x.body \in {"value"} \cup DetailBodies =>
             call.out.ok /\ call.out.val # Undefined
      ELSE call.out = Resolved(Undefined)

\* The declared ranges of a WorkoutLog, on a serialized log.
MODALITIES == {"Running", "Strength", "Hypertrophy", "Power", "Mixed"}
WithinDeclaredRanges(body) ==
  /\ body.modality.v \in MODALITIES
  /\ body.duration_minutes.v > 0
  /\ \A f \in {"session_rpe", "sleep_quality", "life_stress_inverse"} :
       body[f].v \in 1..10
  /\ "avg_rir" \in DOMAIN body => body.avg_rir.v \in 0..10

\* C23 (as claimed): a log outside the declared ranges is rejected by
\* commit and by simulate before any network call: no log-workout or
\* simulate-dose request carries such a log.
C23_OutOfRangeLogNotSent ==
  \A r \in net : r.ep \in {"log", "sim"} => WithinDeclaredRanges(r.body)

\* What a prescription shows: its content without the id of the request
\* that brought it.
Shown(p) == IF p.tag = "rx" THEN [tag |-> "rx", goal |-> p.goal] ELSE p

\* The manual refresh t completes in this step, with nothing else in flight
\* and nothing done since it started.
RefreshAlone(t) ==
  /\ t.kind = "refresh"
  /\ SettledIn(t)
  /\ tasks = {t}
  /\ last.act = "start" /\ last.op = t.op

\* The response is the one that brought the prescription displayed before.
SameAnswer(res) ==
  res.ok /\ Shown(res.val) = Shown(prescription) /\ prescription # Null

\* C24 (as claimed): a refresh that completes on its own after an earlier
\* one, with the same server response, leaves the same prescription
\* displayed, the error slot empty and the loading flag false.
C24_RefreshIdempotent ==
  [][\A t \in tasks :
       RefreshAlone(t) =>
         /\ SameAnswer(last'.res) => Shown(prescription') = Shown(prescription)
         /\ ~last'.res.ok => prescription' = prescription
         /\ error' = Null
         /\ ~loadingRx']_vars

\* C24 (amended): such a refresh always ends with the loading flag false.
\* With a successful response it displays the body of the response (the
\* same prescription as before when the response is the same) and the error
\* slot is empty; with a failure the prescription is the one displayed
\* before and the error slot holds that failure.
C24_RefreshIdempotentOnSuccess ==
  [][\A t \in tasks :
       RefreshAlone(t) =>
         /\ ~loadingRx'
         /\ last'.res.ok => prescription' = last'.res.val /\ error' = Null
         /\ SameAnswer(last'.res) => Shown(prescription') = Shown(prescription)
         /\ ~last'.res.ok =>
              /\ prescription' = prescription
              /\ error' # Null
              /\ error'.op = t.op
              /\ error'.e = StoredForm(last'.res.val)]_vars

\* The third operation, a manual refresh for the same goal as the
\* prescription displayed before it, has completed: its prescription is
\* displayed, the error slot is empty, nothing is loading.
C24_Witness ==
  /\ last.act = "done" /\ last.kind = "refresh" /\ last.op = 3 /\ last.res.ok
  /\ tasks = {}
  /\ prescription.tag = "rx" /\ prescription.req = 3
  /\ prescription.goal = InitialGoal
  /\ rxIssued = 3 /\ nReq = 3
  /\ error = Null
  /\ ~loadingRx

\* A step that starts a refresh of the prescription (mount, goal change,
\* refresh button).
RefreshStarts == nOps' # nOps /\ last'.kind \in {"effect", "refresh"}

\* C25 (as claimed): the start of a refresh leaves the prescription cell
\* unchanged, and a prescription fetched before is displayed for the whole
\* time an effect or manual refresh is in flight.
C25_NoBlanking ==
  /\ [][RefreshStarts => prescription' = prescription]_vars
  /\ [](\A t \in tasks :
          (t.kind \in {"effect", "refresh"} /\ ~t.cancelled
           /\ prescription.tag = "rx") =>
            RenderPrescription = Card(prescription))

\* C25 (amended): the start of a refresh leaves the prescription cell
\* unchanged but sets the loading flag, and from that step the panel shows
\* the loading placeholder instead of the prescription; when a manual
\* refresh or the effect that is not cancelled completes, the placeholder
\* is gone and the prescription cell, if it holds one, is displayed again.
C25_CellKeptPanelShowsPlaceholder ==
  [][/\ RefreshStarts =>
          /\ prescription' = prescription
          /\ loadingRx'
          /\ RenderPrescription' = Pulse
     /\ \A t \in tasks :
          (t.kind \in {"effect", "refresh"} /\ ~t.cancelled /\ SettledIn(t)) =>
            /\ ~loadingRx'
            /\ prescription'.tag = "rx" =>
                 RenderPrescription' = Card(prescription')]_vars

\* A manual refresh is in flight: the cell still holds the prescription
\* fetched before, the panel shows the placeholder.
C25_Witness ==
  /\ \E t \in tasks : t.kind = "refresh"
  /\ last.act = "start" /\ last.kind = "refresh"
  /\ prescription.tag = "rx"
  /\ loadingRx
  /\ RenderPrescription = Pulse

\* C26: when every call gets a response or a failure, each loading flag
\* of the mounted component that is true becomes false, both flags are
\* false from some point on (or the component is gone), a flag that is false
\* stays false in every step that starts no operation, and the answer to a
\* superseded request changes no flag.
C26_LoadingFlagsSettle ==
  /\ loadingRx ~> (~loadingRx \/ life = "unmounted")
  /\ loggingWorkout ~> (~loggingWorkout \/ life = "unmounted")
  /\ <>[](life = "unmounted" \/ (~loadingRx /\ ~loggingWorkout))
  /\ [][/\ nOps' = nOps =>
             /\ ~loadingRx => ~loadingRx'
             /\ ~loggingWorkout => ~loggingWorkout'
        /\ \A t \in tasks :
             (t.kind = "effect" /\ t.cancelled /\ SettledIn(t)) =>
               UNCHANGED <<loadingRx, loggingWorkout>>]_vars

\* The answer to a superseded request arrived last: nothing is in flight
\* and both flags are false.
C26_Witness ==
  /\ last.act = "done" /\ last.kind = "effect" /\ last.cancelled
  /\ tasks = {} /\ net = {}
  /\ nOps = 2
  /\ ~loadingRx /\ ~loggingWorkout

\* The wire contract: the URL of getNextSession for each goal, written out.
WireGoal(text) ==
  CASE text = "Max Strength" ->
         <<"M", "a", "x", "%", "2", "0", "S", "t", "r", "e", "n", "g", "t", "h">>
    [] text = "R&D" -> <<"R", "%", "2", "6", "D">>
    [] OTHER -> Chars(text)

\* The body is the log as JSON: every property of the log that has a value,
\* with that value, and nothing else.
IsJsonOf(body, log) ==
  /\ DOMAIN body \subseteq DOMAIN log
  /\ \A f \in DOMAIN log : log[f] # Undefined => f \in DOMAIN body
  /\ \A f \in DOMAIN body : body[f] = log[f] /\ body[f] # Undefined

JsonHeaders == {<<"Content-Type", "application/json">>}

WireContract(c) ==
  CASE c.fn = "ping" ->
         /\ c.wire.method = "GET"
         /\ c.wire.url = <<"{base}", "/ping">>
         /\ c.wire.body = Undefined
    [] c.fn = "getNextSession" ->
         /\ c.wire.method = "GET"
         /\ c.wire.url = <<"{base}", "/v1", "/next-session?goal=">>
                           \o WireGoal(c.arg.v)
         /\ c.wire.body = Undefined
    [] c.fn = "logWorkout" ->
         /\ c.wire.method = "POST"
         /\ c.wire.url = <<"{base}", "/v1", "/log-workout">>
         /\ c.wire.headers = JsonHeaders
         /\ IsJsonOf(c.wire.body, c.arg)
    [] c.fn = "simulateDose" ->
         /\ c.wire.method = "POST"
         /\ c.wire.url = <<"{base}", "/v1", "/simulate-dose">>
         /\ c.wire.headers = JsonHeaders
         /\ IsJsonOf(c.wire.body, c.arg)

\* C27: with a base URL, each call of ping, getNextSession, logWorkout or
\* simulateDose issues exactly one request, and it has the method and path
\* of the wire contract: GET {base}/ping, GET
\* {base}/v1/next-session?goal=<URL-encoded goal>, POST {base}/v1/log-workout,
\* POST {base}/v1/simulate-dose; the two POSTs carry the log as JSON body
\* with a Content-Type: application/json header.
C27_WireContract ==
  /\ [][(configured /\ nOps' = nOps + 1) =>
          /\ nReq' = nReq + 1
          /\ \E c \in tasks' :
               /\ c \notin tasks
               /\ tasks' = tasks \cup {c}
               /\ c.r \notin net
               /\ net' = net \cup {c.r}
               /\ c.r.req = nReq'
               /\ c.wire = Request(c.r)
               /\ WireContract(c)]_vars
  /\ [][nOps' = nOps => nReq' = nReq /\ net' \subseteq net]_vars
  /\ []((configured /\ call.fn # "none") => WireContract(call))

\* A goal with a reserved character was requested, and a log was posted.
C27_Witness ==
  /\ configured
  /\ call.fn = "getNextSession" /\ call.arg = Str("R&D")
  /\ call.wire.url = <<"{base}", "/v1", "/next-session?goal=",
                       "R", "%", "2", "6", "D">>
  /\ nReq = 2
  /\ call.n = 2

\* A log in which every optional field is omitted: the property is absent,
\* or present with the value undefined (an emptied avg_rir input).
IsMinimal(log) ==
  \A f \in OptionalFields : f \notin DOMAIN log \/ log[f] = Undefined

\* C28: a log in which all optional fields (avg_rir, distance_meters,
\* total_volume_load) are omitted is sent, by logWorkout and by
\* simulateDose, in a POST whose body contains the required fields
\* (timestamp, modality, duration_minutes, session_rpe, sleep_quality,
\* life_stress_inverse) with the values of the log, and no other field.
C28_MinimalLogRoundTrip ==
  (/\ configured
   /\ call.fn \in {"logWorkout", "simulateDose"}
   /\ IsMinimal(call.arg)) =>
    /\ call.wire.method = "POST"
    /\ DOMAIN call.wire.body = RequiredFields
    /\ \A f \in RequiredFields : call.wire.body[f] = call.arg[f]
    /\ nReq >= 1

\* A log whose avg_rir input was emptied was posted.
C28_Witness ==
  /\ configured
  /\ call.fn = "logWorkout"
  /\ "avg_rir" \in DOMAIN call.arg /\ call.arg.avg_rir = Undefined
  /\ IsMinimal(call.arg)
  /\ DOMAIN call.wire.body = RequiredFields

\* The clamped value of a fatigue scalar, in quarters.
Clamped(value) ==
  LET n == IF IsNullish(value) THEN 0 ELSE value.n
  IN  IF n < 0 THEN 0 ELSE IF n > 400 THEN 400 ELSE n
\* The number of tenths a percentage text stands for.
Tenths(text) == 10 * text.int + text.frac

\* C29 (as claimed): the percentage shown as text and the width of the bar
\* both equal max(0, min(100, v)), a missing value counting as 0.
C29_TextAndWidthAreClamp ==
  view.fn = "renderFatigueBar" =>
    /\ view.out.width.n = Clamped(view.arg)
    /\ 4 * Tenths(view.out.text) = 10 * Clamped(view.arg)

\* C29 (amended): the width of the bar equals max(0, min(100, v)), the text is that
\* value rounded to one decimal (the nearest tenth, the larger of two), and
\* both lie in [0, 100], also for values below 0 or above 100; a missing
\* value counts as 0.
C29_WidthIsClampTextIsRounded ==
  view.fn = "renderFatigueBar" =>
    LET c == Clamped(view.arg)
        t == Tenths(view.out.text)
    IN  /\ view.out.width = Quarters(c)
        /\ 2 * t - 5 * c \in {0, 1}
        /\ view.out.text.frac \in 0..9
        /\ 0 <= t /\ t <= 1000
        /\ 0 <= c /\ c <= 400

\* A value above 100 was rendered as 100.0% with a full bar.
C29_Witness ==
  /\ view.fn = "renderFatigueBar"
  /\ view.arg = Quarters(400 + MaxOver)
  /\ view.out.text = [int |-> 100, frac |-> 0]
  /\ view.out.width = Quarters(400)

RECURSIVE ValueOf(_)
ValueOf(ds) ==
  IF ds = <<>> THEN 0 ELSE 10 * ValueOf(SubSeq(ds, 1, Len(ds) - 1)) + ds[Len(ds)]

\* C30 (as claimed): formatMMSS renders a positive finite number of seconds as MM:SS
\* with two digits each, MM being floor(sec / 60) and SS a value in 00..59;
\* for sec <= 0 or a non-finite value it returns the dash.
C30_FixedWidthMMSS ==
  view.fn = "formatMMSS" =>
    IF isFinite(view.arg) /\ view.arg.n > 0
      THEN /\ view.out.tag = "text"
           /\ Len(view.out.mm) = 2 /\ Len(view.out.ss) = 2
           /\ ValueOf(view.out.mm) = view.arg.n \div 120
           /\ ValueOf(view.out.ss) \in 0..59
      ELSE view.out = Dash

\* The requests a step issues, and the effect it starts.
Issued == {r \in net' : r \notin net /\ r.req > nReq}
EffectStarted == {t \in tasks' : t.kind = "effect" /\ t.op = nOps + 1}
MountStep == life = "init" /\ life' = "mounted"
GoalStep == goal' # goal

\* C31: with a base URL, mounting issues exactly one prescription request,
\* for the goal "Strength"; every change of the selected goal issues exactly
\* one prescription request, for the new goal, and marks every effect that
\* is still waiting as cancelled; an effect is started, and a request is
\* issued for an effect, by mounting and by a change of goal only.
C31_GoalChangePath ==
  [][/\ (configured /\ MountStep) =>
          /\ Issued = {[req |-> nReq + 1, ep |-> "rx", goal |-> "Strength",
                        op |-> nOps + 1, body |-> Undefined]}
          /\ nReq' = nReq + 1
     /\ (configured /\ GoalStep) =>
          /\ \E r \in Issued :
               Issued = {r} /\ r.ep = "rx" /\ r.goal = goal' /\ r.req = nReq + 1
          /\ nReq' = nReq + 1
          /\ \A t \in tasks :
               t.kind = "effect" => [t EXCEPT !.cancelled = TRUE] \in tasks'
          /\ \A t \in tasks' :
               (t.kind = "effect" /\ ~t.cancelled) =>
                 t.goal = goal' /\ t.req = nReq + 1
     /\ (MountStep \/ GoalStep) => Cardinality(EffectStarted) = 1
     /\ ~(MountStep \/ GoalStep) =>
          /\ EffectStarted = {}
          /\ \A r \in Issued : \A t \in tasks' :
               t.req = r.req => t.kind # "effect"]_vars

\* The goal was changed while the request of the mount was outstanding:
\* two requests are outstanding, the one for "Strength" cancelled.
C31_Witness ==
  /\ configured
  /\ last.act = "start" /\ last.kind = "effect"
  /\ goal = "Power"
  /\ \E t1 \in tasks : \E t2 \in tasks :
       /\ t1.kind = "effect" /\ t1.cancelled /\ t1.goal = "Strength"
       /\ t2.kind = "effect" /\ ~t2.cancelled /\ t2.goal = "Power"
       /\ \E r1 \in net : \E r2 \in net :
            /\ r1.req = t1.req /\ r1.goal = "Strength"
            /\ r2.req = t2.req /\ r2.goal = "Power"

\* The step in which logWorkout of commit t resolves, and the one in which
\* the getNextSession that follows it fails.
LogSucceeds(t) ==
  t.kind \in Commits /\ t.phase = "log" /\ SettledIn(t) /\ last'.res.ok
RefreshFails(t) ==
  t.kind \in Commits /\ t.phase = "rx" /\ SettledIn(t) /\ ~last'.res.ok

\* C32: partial commit.  When logWorkout of a commit succeeds, the state
\* cell takes the new server state and the prescription stays; when the
\* getNextSession that follows fails, the state cell and the prescription
\* cell stay as they are, the error slot takes the failure and the commit
\* loading flag becomes false.  With nothing happening in between, the state
\* cell then holds the state of this commit and the prescription cell the
\* prescription from before the commit.
C32_PartialCommit ==
  [][\A t \in tasks :
       /\ LogSucceeds(t) =>
            /\ latestState' = last'.res.val
            /\ prescription' = prescription
            /\ loggingWorkout' = loggingWorkout
       /\ RefreshFails(t) =>
            /\ latestState' = latestState
            /\ prescription' = prescription
            /\ error'.op = t.op
            /\ error'.e = StoredForm(last'.res.val)
            /\ loggingWorkout' = FALSE
            /\ (last.act = "done" /\ last.op = t.op /\ last.phase = "log") =>
                 latestState' = last.res.val]_vars

\* A commit stored its state and its refresh failed: the prescription of
\* the mount is still displayed, next to the new state and the error.
C32_Witness ==
  /\ last.act = "done" /\ last.kind = "submit" /\ last.phase = "rx"
  /\ ~last.res.ok
  /\ latestState.tag = "state"
  /\ prescription.tag = "rx" /\ prescription.req = 1
  /\ error # Null /\ error.op = last.op
  /\ ~loggingWorkout
  /\ tasks = {}

\* Nothing is waited for and no request is outstanding.
AtRest == tasks = {} /\ net = {}

\* C33 (as claimed): at rest and with an empty error slot, a prescription
\* in the prescription cell is the response to a request made for the
\* selected goal.
C33_CurrentGoalAtRest ==
  (AtRest /\ error = Null /\ prescription.tag = "rx") =>
    prescription.goal = goal

\* The commits in progress and the state-transition requests outstanding.
CommitsInProgress == {t \in tasks : t.kind \in Commits}
LogRequests == {r \in net : r.ep = "log"}

\* C34 (as claimed): at most one commit is in progress at any time, the
\* commit loading flag is true while it is, and two state-transition
\* requests are never outstanding together.
C34_OneCommitAtATime ==
  /\ Cardinality(CommitsInProgress) <= 1
  /\ CommitsInProgress # {} => loggingWorkout
  /\ Cardinality(LogRequests) <= 1

\* C35 (as claimed): the state cell holds the response of the most
\* recently issued state-transition request among those that resolved
\* successfully; the response of an earlier-issued commit never replaces
\* the response of a later-issued one.
C35_LatestCommitWins ==
  [][(latestState.tag = "state" /\ latestState'.tag = "state") =>
       latestState'.req >= latestState.req]_vars

\* The prescription requests of the effect and of the refresh button that
\* are outstanding and not cancelled.
RxOutstanding ==
  {t \in tasks : /\ t.kind \in {"effect", "refresh"}
                 /\ ~t.cancelled
                 /\ \E r \in net : r.req = t.req}

\* C36 (as claimed): whenever a prescription request of the effect or of
\* the refresh button is outstanding and not cancelled, the prescription
\* loading flag is true.
C36_LoadingFlagAccurate ==
  RxOutstanding # {} => loadingRx

\* C37 (as claimed): when simulate cycles overlap, the response of an
\* earlier-started simulation that arrives after the response of a
\* later-started one does not replace it in the dose slot.
C37_LatestSimulationWins ==
  [][(simulatedDose.tag = "dose" /\ simulatedDose'.tag = "dose") =>
       simulatedDose'.req >= simulatedDose.req]_vars

\* C38 (as claimed): when logWorkout of a commit resolves, for any success
\* response, the state cell holds a state vector afterwards; a state in
\* the state cell is never replaced by an empty value.
C38_StateNeverEmptied ==
  [][/\ \A t \in tasks : LogSucceeds(t) => latestState'.tag = "state"
     /\ latestState.tag = "state" => latestState'.tag = "state"]_vars

====
